---- MODULE Spec2Model ----
(***************************************************************************)
(* Baseball pitch/guess duel backend: the outcome resolution engine        *)
(* (app/services/game_engine.py) and the parameter version store           *)
(* (app/services/logging_service.py, app/routers/logging.py), and the      *)
(* game endpoints that drive the engine (app/main.py).                     *)
(*                                                                         *)
(* Probabilities are kept in hundredths: 0.26 is 26.  A value of           *)
(* random.random() in [r/100, (r+1)/100) is the draw r in 0..99; every     *)
(* threshold of the engine is a whole number of hundredths, so a           *)
(* comparison random.random() < threshold has the same answer for every    *)
(* value of one bucket.                                                    *)
(***************************************************************************)
EXTENDS Integers, Sequences, FiniteSets, TLC

VARIABLES
    \* ---- GameEngine.update_game_state applied to one stored game ----
    current_state,   \* the Game row handed to update_game_state
    turn,            \* the (result_type, is_ball) pair handed to it
    updated_state,   \* its return value, or NoValue before the call
    \* ---- GameEngine.calculate_result ----
    actual_pitch,    \* Pitch(type, zone)
    batter_guess,    \* Guess(type, zone)
    random_val,      \* the value random.random() returns in this call
    result,          \* its return value, or NoValue before the call
    \* ---- the parameter version store ----
    versions,        \* table parameter_versions, committed rows by version
    adjustments,     \* table parameter_adjustments, committed rows (id left out)
    sess,            \* the database session of each request in flight
    reply,           \* the response the last step sent, NoReply if it sent none
    activated_once,  \* history: an activate_version request has committed
    \* ---- one game played through the endpoints of main.py ----
    db_game,         \* its row of table games, NoValue before start_game
    pitch_record,    \* the row of table pitches added last, or NoValue
    \* ---- the random source ----
    random_stream,   \* the values the next calls of random.random() return
    \* ---- several games, each played by a client of its own ----
    games,           \* table games, committed rows by game id
    pitches,         \* table pitches, committed rows in the order of their ids
    gsess,           \* the request in flight of the client of each game
    \* ---- the game log ----
    game_details,    \* table game_details, committed rows in the order of ids
    player_statistics \* table player_statistics, committed rows by
                      \* (version, player_type)

engineVars == <<current_state, turn, updated_state>>
resolveVars == <<actual_pitch, batter_guess, random_val, result>>
storeVars == <<versions, adjustments, sess, reply, activated_once>>
vars == <<current_state, turn, updated_state,
          actual_pitch, batter_guess, random_val, result,
          versions, adjustments, sess, reply, activated_once,
          db_game, pitch_record, random_stream, games, pitches, gsess,
          game_details, player_statistics>>
gameVars == <<db_game, pitch_record>>
gamesVars == <<games, pitches, gsess>>
logVars == <<game_details, player_statistics>>

NoValue == [none |-> TRUE]

(***************************************************************************)
(* Bounds of the model.                                                    *)
(***************************************************************************)
MaxScore == 2     \* scores of the game rows handed to update_game_state
MaxOuts == 3      \* outs of the game rows handed to update_game_state

(***************************************************************************)
(* app/schemas/game.py                                                     *)
(***************************************************************************)
PitchType == {"fastball", "changeup", "slider", "forkball"}
GuessType == {"fastball", "changeup", "slider", "forkball", "any"}
ResultType == {"hit", "strike", "ball", "foul", "swing_miss"}

Min(a, b) == IF a < b THEN a ELSE b

(***************************************************************************)
(* GameEngine._get_ball_swing_chance, in hundredths.                       *)
(*   base 0.2; zones 10, 11: * 1.3; zones 12, 13: * 1.1; zone >= 14: * 0.5 *)
(***************************************************************************)
get_ball_swing_chance(pitch, guess) ==
    LET base_chance ==
            IF pitch.zone \in {10, 11} THEN (20 * 13) \div 10
            ELSE IF pitch.zone \in {12, 13} THEN (20 * 11) \div 10
            ELSE IF pitch.zone >= 14 THEN (20 * 5) \div 10
            ELSE 20
    IN  Min(base_chance, 60)

(***************************************************************************)
(* GameEngine._calculate_hit_chance, in hundredths.                        *)
(***************************************************************************)
calculate_hit_chance_uncapped(zone_match, type_match, pitch, guess) ==
    LET c0 == 10
        c1 == IF zone_match THEN c0 + 40 ELSE c0
        c2 == IF type_match THEN c1 + 30 ELSE c1
        c3 == IF zone_match /\ type_match THEN c2 + 20 ELSE c2
    IN  IF pitch.type = "changeup" /\ type_match THEN c3 + 10 ELSE c3

calculate_hit_chance(zone_match, type_match, pitch, guess) ==
    LET c0 == 10
        c1 == IF zone_match THEN c0 + 40 ELSE c0
        c2 == IF type_match THEN c1 + 30 ELSE c1
        c3 == IF zone_match /\ type_match THEN c2 + 20 ELSE c2
        c4 == IF pitch.type = "changeup" /\ type_match THEN c3 + 10 ELSE c3
    IN  Min(c4, 90)

(***************************************************************************)
(* GameEngine.calculate_result: <<result_type, is_ball>>.  r is the one    *)
(* value random.random() yields in whichever branch runs.                  *)
(***************************************************************************)
is_strike_through_ten(pitch) == pitch.zone <= 10

is_strike_below_nine(pitch) == pitch.zone < 9

is_strike_zone(pitch) == pitch.zone <= 9

calculate_result_swing_is_ball(pitch, guess, r) ==
    IF ~is_strike_zone(pitch)
    THEN IF r < get_ball_swing_chance(pitch, guess)
         THEN [result_type |-> "swing_miss", is_ball |-> TRUE]
         ELSE [result_type |-> "ball", is_ball |-> TRUE]
    ELSE LET hit_chance == calculate_hit_chance(
                               pitch.zone = guess.zone,
                               guess.type = "any" \/ pitch.type = guess.type,
                               pitch, guess)
         IN  IF r < hit_chance
             THEN [result_type |-> "hit", is_ball |-> FALSE]
             ELSE IF r < hit_chance + 20
             THEN [result_type |-> "foul", is_ball |-> FALSE]
             ELSE [result_type |-> "strike", is_ball |-> FALSE]

calculate_result_narrow_foul(pitch, guess, r) ==
    IF ~is_strike_zone(pitch)
    THEN IF r < get_ball_swing_chance(pitch, guess)
         THEN [result_type |-> "swing_miss", is_ball |-> FALSE]
         ELSE [result_type |-> "ball", is_ball |-> TRUE]
    ELSE LET hit_chance == calculate_hit_chance(
                               pitch.zone = guess.zone,
                               guess.type = "any" \/ pitch.type = guess.type,
                               pitch, guess)
         IN  IF r < hit_chance
             THEN [result_type |-> "hit", is_ball |-> FALSE]
             ELSE IF r < hit_chance + 2
             THEN [result_type |-> "foul", is_ball |-> FALSE]
             ELSE [result_type |-> "strike", is_ball |-> FALSE]

calculate_result(pitch, guess, r) ==
    LET is_strike == is_strike_zone(pitch)
    IN  IF ~is_strike
        THEN LET swing_chance == get_ball_swing_chance(pitch, guess)
             IN  IF r < swing_chance
                 THEN [result_type |-> "swing_miss", is_ball |-> FALSE]
                 ELSE [result_type |-> "ball", is_ball |-> TRUE]
        ELSE LET zone_match == pitch.zone = guess.zone
                 type_match == guess.type = "any" \/ pitch.type = guess.type
                 hit_chance == calculate_hit_chance(zone_match, type_match,
                                                    pitch, guess)
             IN  IF r < hit_chance
                 THEN [result_type |-> "hit", is_ball |-> FALSE]
                 ELSE IF r < hit_chance + 20
                 THEN [result_type |-> "foul", is_ball |-> FALSE]
                 ELSE [result_type |-> "strike", is_ball |-> FALSE]

(***************************************************************************)
(* GameEngine.update_game_state.  The returned dict carries balls,         *)
(* strikes, outs, inning and score{player, cpu}; st is that dict as it     *)
(* stands when a branch starts (the values copied from current_state).     *)
(***************************************************************************)
\* lines 179-182 and 187-190: the point goes to the side that is batting
award_point_both(cs, score) ==
    [player |-> score.player + 1, cpu |-> score.cpu + 1]

award_point(cs, score) ==
    IF cs.is_player_pitching
    THEN [score EXCEPT !.cpu = @ + 1]
    ELSE [score EXCEPT !.player = @ + 1]

\* lines 177-184: is_ball
on_ball_clearing_strikes(cs, st) ==
    IF st.balls + 1 >= 4
    THEN [st EXCEPT !.score = award_point(cs, st.score),
                    !.balls = 0, !.strikes = 0]
    ELSE [st EXCEPT !.balls = st.balls + 1, !.strikes = 0]

on_ball_walk_at_five(cs, st) ==
    IF st.balls + 1 >= 5
    THEN [st EXCEPT !.score = award_point(cs, st.score),
                    !.balls = 0, !.strikes = 0]
    ELSE [st EXCEPT !.balls = st.balls + 1]

on_ball(cs, st) ==
    IF st.balls + 1 >= 4
    THEN [st EXCEPT !.score = award_point(cs, st.score),
                    !.balls = 0, !.strikes = 0]
    ELSE [st EXCEPT !.balls = st.balls + 1]

\* lines 186-192: hit
on_hit_keeps_count(cs, st) ==
    [st EXCEPT !.score = award_point(cs, st.score)]

on_hit(cs, st) ==
    [st EXCEPT !.score = award_point(cs, st.score),
               !.balls = 0, !.strikes = 0]

\* lines 193-195: foul
on_foul_unprotected(cs, st) ==
    [st EXCEPT !.strikes = st.strikes + 1]

on_foul(cs, st) ==
    IF st.strikes < 2
    THEN [st EXCEPT !.strikes = st.strikes + 1]
    ELSE st

\* lines 196-201: strike, swing_miss
on_strike_keeps_balls(cs, st) ==
    IF st.strikes + 1 >= 3
    THEN [st EXCEPT !.outs = st.outs + 1, !.strikes = 0]
    ELSE [st EXCEPT !.strikes = st.strikes + 1]

on_strike(cs, st) ==
    IF st.strikes + 1 >= 3
    THEN [st EXCEPT !.outs = st.outs + 1, !.balls = 0, !.strikes = 0]
    ELSE [st EXCEPT !.strikes = st.strikes + 1]

update_game_state(cs, result_type, is_ball) ==
    LET st0 == [balls |-> cs.balls, strikes |-> cs.strikes, outs |-> cs.outs,
                inning |-> cs.inning,
                score |-> [player |-> cs.player_score, cpu |-> cs.cpu_score]]
    IN  IF is_ball THEN on_ball(cs, st0)
        ELSE IF result_type = "hit" THEN on_hit(cs, st0)
        ELSE IF result_type = "foul" THEN on_foul(cs, st0)
        ELSE IF result_type \in {"strike", "swing_miss"} THEN on_strike(cs, st0)
        ELSE st0

(***************************************************************************)
(* The pairs calculate_result returns (its five return statements).        *)
(***************************************************************************)
TurnOutcomes ==
    { [result_type |-> "swing_miss", is_ball |-> FALSE],
      [result_type |-> "ball", is_ball |-> TRUE],
      [result_type |-> "hit", is_ball |-> FALSE],
      [result_type |-> "foul", is_ball |-> FALSE],
      [result_type |-> "strike", is_ball |-> FALSE] }

\* The Game rows (app/models/game.py) a stored game can hold; outs and the
\* scores have no upper limit in the code and are cut at the bounds.
GameRows ==
    [balls : 0..3, strikes : 0..2, outs : 0..MaxOuts, inning : {1},
     player_score : 0..MaxScore, cpu_score : 0..MaxScore,
     is_player_pitching : BOOLEAN]

Pitches == [type : PitchType, zone : 1..17]
Guesses == [type : GuessType, zone : 1..9]
Draws == 0..99

(***************************************************************************)
(* The parameter version store.                                            *)
(*                                                                         *)
(* A parameter tree (the JSON column parameter_versions.parameters) is     *)
(* kept as the function from the path of each leaf, a sequence of dict     *)
(* keys, to the leaf's value.  Values stored as 0.25, 0.03, ... are kept   *)
(* in hundredths.                                                          *)
(***************************************************************************)
VIds == {"1.0.0", "1.1.0", "1.2.0"}      \* version ids a request may name
Sessions == {"s1", "s2"}                 \* requests that can be in flight

\* ParameterManager.get_default_parameters
DefaultParameters ==
    (<<"batting", "power_base">> :> 75) @@
    (<<"batting", "contact_base">> :> 70) @@
    (<<"batting", "speed_base">> :> 65) @@
    (<<"batting", "power_variance">> :> 15) @@
    (<<"batting", "contact_variance">> :> 12) @@
    (<<"batting", "speed_variance">> :> 10) @@
    (<<"pitching", "velocity_base">> :> 80) @@
    (<<"pitching", "control_base">> :> 75) @@
    (<<"pitching", "stamina_base">> :> 70) @@
    (<<"pitching", "velocity_variance">> :> 12) @@
    (<<"pitching", "control_variance">> :> 15) @@
    (<<"pitching", "stamina_variance">> :> 18) @@
    (<<"game_mechanics", "hit_probability_base">> :> 25) @@
    (<<"game_mechanics", "homerun_probability_base">> :> 3) @@
    (<<"game_mechanics", "strikeout_probability_base">> :> 22) @@
    (<<"game_mechanics", "walk_probability_base">> :> 8)

\* A key of parameter_changes is a dotted string, kept as the sequence of its
\* name tokens (maximal runs of characters other than ".") and "." tokens.
Dot == "."

Segment(tokens) == IF tokens = <<>> THEN "" ELSE tokens[1]

\* key.split(".")
RECURSIVE split(_)
split(key) ==
    IF \E i \in 1..Len(key) : key[i] = Dot
    THEN LET i == CHOOSE i \in 1..Len(key) :
                      /\ key[i] = Dot
                      /\ \A j \in 1..(i - 1) : key[j] # Dot
         IN  <<Segment(SubSeq(key, 1, i - 1))>>
                 \o split(SubSeq(key, i + 1, Len(key)))
    ELSE <<Segment(key)>>

IsPrefix(p, q) == Len(p) <= Len(q) /\ SubSeq(q, 1, Len(p)) = p

\* One round of the loop of _apply_parameter_changes (lines 151-159): walk
\* keys[:-1] from the root, creating a dict where a key is missing, then
\* assign current[keys[-1]] = value.  When the walk steps onto a leaf (a
\* number), the next "k not in current" or the final item assignment raises
\* TypeError.  The assignment replaces whatever was stored at keys, a leaf or
\* a whole dict.
set_path_top_level_only(params, keys, value) ==
    LET top == <<keys[Len(keys)]>>
        kept == { p \in DOMAIN params : ~IsPrefix(top, p) }
    IN  [ok |-> TRUE,
         params |-> [p \in kept \cup {top} |->
                        IF p = top THEN value ELSE params[p]]]

set_path(params, keys, value) ==
    IF \E n \in 1..(Len(keys) - 1) : SubSeq(keys, 1, n) \in DOMAIN params
    THEN [ok |-> FALSE, params |-> params]
    ELSE LET kept == { p \in DOMAIN params : ~IsPrefix(keys, p) }
         IN  [ok |-> TRUE,
              params |-> [p \in kept \cup {keys} |->
                             IF p = keys THEN value ELSE params[p]]]

\* ParameterManager._apply_parameter_changes: the changes in dict order;
\* ok = FALSE stands for the TypeError that leaves the function.
RECURSIVE apply_parameter_changes(_, _)
apply_parameter_changes(base_params, changes) ==
    IF changes = <<>>
    THEN [ok |-> TRUE, params |-> base_params]
    ELSE LET r == set_path(base_params, split(Head(changes).key),
                           Head(changes).value)
         IN  IF ~r.ok THEN r
             ELSE apply_parameter_changes(r.params, Tail(changes))

\* What _apply_parameter_changes leaves in the dict it was handed as
\* base_params.  Line 147 copies the top level only, so every nested dict of
\* new_params is the very dict base_params holds under the same first key
\* (shared), until new_params gets another value under that key.  A change
\* whose key has several segments and walks into a shared dict assigns in
\* that dict and shows in base_params as well; a change with a one-segment
\* key, or one whose first segment is new, touches new_params only.
TopKeys(params) == { p[1] : p \in DOMAIN params }

RECURSIVE base_params_after(_, _, _, _)
base_params_after(base_params, new_params, shared, changes) ==
    IF changes = <<>>
    THEN base_params
    ELSE LET keys == split(Head(changes).key)
             r == set_path(new_params, keys, Head(changes).value)
         IN  IF ~r.ok THEN base_params
             ELSE IF Len(keys) > 1 /\ keys[1] \in shared
             THEN base_params_after(
                      set_path(base_params, keys, Head(changes).value).params,
                      r.params, shared, Tail(changes))
             ELSE base_params_after(base_params, r.params,
                                    shared \ {keys[1]}, Tail(changes))

\* rows of parameter_versions (models/logging.py:46-54)
Exists(tbl, v) == v \in VIds /\ tbl[v] # NoValue

ActiveIds(tbl) == { v \in VIds : tbl[v] # NoValue /\ tbl[v].is_active }

\* ParameterManager.get_parameters with an explicit version: the stored tree,
\* or the default tree when no row has that version.
get_parameters(tbl, version) ==
    IF Exists(tbl, version) THEN tbl[version].parameters
    ELSE DefaultParameters

\* A session with no request in flight (database.py get_db: a new session per
\* request, closed when the request ends).
IdleSession ==
    [pc |-> "idle", version |-> "", base |-> "", changes |-> <<>>,
     description |-> "", base_found |-> FALSE, base_params |-> <<>>,
     base_row |-> <<>>, new_params |-> <<>>,
     deactivated |-> {}, activated |-> FALSE]

NoReply == [op |-> "none", status |-> 0]

StoreIdle ==
    /\ versions = [v \in VIds |-> NoValue]
    /\ adjustments = {}
    /\ sess = [s \in Sessions |-> IdleSession]
    /\ reply = NoReply
    /\ activated_once = FALSE

GameIdle ==
    /\ db_game = NoValue
    /\ pitch_record = NoValue

GameIds == {"A", "B"}      \* the ids start_game gives out

IdleRequest == [pc |-> "idle"]

GamesIdle ==
    /\ games = [g \in GameIds |-> NoValue]
    /\ pitches = <<>>
    /\ gsess = [g \in GameIds |-> IdleRequest]

LogIdle ==
    /\ game_details = <<>>
    /\ player_statistics = <<>>

StreamIdle == random_stream = <<>>

ResolveIdle ==
    /\ actual_pitch = [type |-> "fastball", zone |-> 1]
    /\ batter_guess = [type |-> "fastball", zone |-> 1]
    /\ random_val = 0
    /\ result = NoValue

EngineIdle ==
    /\ current_state = [balls |-> 0, strikes |-> 0, outs |-> 0, inning |-> 1,
                        player_score |-> 0, cpu_score |-> 0,
                        is_player_pitching |-> TRUE]
    /\ turn = [result_type |-> "ball", is_ball |-> TRUE]
    /\ updated_state = NoValue

(***************************************************************************)
(* SpecAdvance: update_game_state applied once to every game row and every *)
(* turn outcome (execute_pitch, main.py:128-130).                          *)
(***************************************************************************)
InitAdvance ==
    /\ current_state \in GameRows
    /\ turn \in TurnOutcomes
    /\ updated_state = NoValue
    /\ ResolveIdle
    /\ StoreIdle
    /\ GameIdle
    /\ GamesIdle
    /\ LogIdle
    /\ StreamIdle

ApplyUpdate ==
    /\ updated_state = NoValue
    /\ updated_state' = update_game_state(current_state, turn.result_type,
                                          turn.is_ball)
    /\ UNCHANGED <<current_state, turn>>
    /\ UNCHANGED resolveVars
    /\ UNCHANGED storeVars
    /\ UNCHANGED <<gameVars, gamesVars, logVars, random_stream>>

NextAdvance == ApplyUpdate

SpecAdvance == InitAdvance /\ [][NextAdvance]_vars

(***************************************************************************)
(* SpecResolve: calculate_result applied once to every pitch, guess and    *)
(* draw (execute_pitch, main.py:124).                                      *)
(***************************************************************************)
InitResolve ==
    /\ actual_pitch \in Pitches
    /\ batter_guess \in Guesses
    /\ random_val \in Draws
    /\ result = NoValue
    /\ EngineIdle
    /\ StoreIdle
    /\ GameIdle
    /\ GamesIdle
    /\ LogIdle
    /\ StreamIdle

ApplyResolve ==
    /\ result = NoValue
    /\ result' = calculate_result(actual_pitch, batter_guess, random_val)
    /\ UNCHANGED <<actual_pitch, batter_guess, random_val>>
    /\ UNCHANGED engineVars
    /\ UNCHANGED storeVars
    /\ UNCHANGED <<gameVars, gamesVars, logVars, random_stream>>

NextResolve == ApplyResolve

SpecResolve == InitResolve /\ [][NextResolve]_vars

(***************************************************************************)
(* Requests against the parameter version store.                           *)
(*                                                                         *)
(* Every request runs in a database session of its own (get_db) on MySQL   *)
(* (database.py:7-10) with the engine's default isolation: a SELECT reads  *)
(* committed rows only, and a session's writes reach the table at its      *)
(* commit and are dropped when the session is closed without one.  The     *)
(* first UPDATE of activate_version filters on is_active, a column without *)
(* an index (models/logging.py:54), so it scans and locks every row of the *)
(* table until the session ends; another session's UPDATE or INSERT waits  *)
(* for it, a SELECT does not.                                              *)
(***************************************************************************)
HoldsLocks(t) == sess[t].pc \in {"activate_mark", "activate_commit"}

Blocked(s) == \E t \in Sessions \ {s} : HoldsLocks(t)

\* the request of session s ends with response r and its session is closed;
\* reply holds a response only in the state the responding step leads to
Finish(s, r) ==
    /\ sess' = [sess EXCEPT ![s] = IdleSession]
    /\ reply' = r

\* ---- PUT /parameters/{version}/activate (routers/logging.py:134-154) ----
\* lines 138-140: UPDATE ... SET is_active = FALSE WHERE is_active
activate_without_deactivate(s, v) ==
    /\ sess[s].pc = "idle"
    /\ ~Blocked(s)
    /\ sess' = [sess EXCEPT ![s] =
                   [IdleSession EXCEPT !.pc = "activate_mark",
                                       !.version = v]]
    /\ reply' = NoReply
    /\ UNCHANGED <<versions, adjustments, activated_once>>
    /\ UNCHANGED <<engineVars, resolveVars, gameVars, gamesVars, logVars,
                   random_stream>>

activate_deactivate(s, v) ==
    /\ sess[s].pc = "idle"
    /\ ~Blocked(s)
    /\ sess' = [sess EXCEPT ![s] =
                   [IdleSession EXCEPT !.pc = "activate_mark",
                                       !.version = v,
                                       !.deactivated = ActiveIds(versions)]]
    /\ reply' = NoReply
    /\ UNCHANGED <<versions, adjustments, activated_once>>
    /\ UNCHANGED <<engineVars, resolveVars, gameVars, gamesVars, logVars,
                   random_stream>>

\* lines 143-147: the number of rows that the UPDATE ... WHERE version =
\* :version matched
rows_matched_always(tbl, v) == 1

rows_matched(tbl, v) == IF Exists(tbl, v) THEN 1 ELSE 0

\* get_db (database.py:26-32): db.close() at the end of a request that did
\* not commit; the rows deactivated that the session had set inactive are
\* rolled back
close_keeping_updates(tbl, deactivated) ==
    [w \in VIds |->
        IF w \in deactivated THEN [tbl[w] EXCEPT !.is_active = FALSE]
        ELSE tbl[w]]

close_session(tbl, deactivated) == tbl

\* lines 143-150: UPDATE ... SET is_active = TRUE WHERE version = :version;
\* no row matched: 404, and the session is closed without a commit
activate_mark(s) ==
    /\ sess[s].pc = "activate_mark"
    /\ IF rows_matched(versions, sess[s].version) = 0
       THEN /\ Finish(s, [op |-> "activate_version", status |-> 404,
                          version |-> sess[s].version])
            /\ versions' = close_session(versions, sess[s].deactivated)
       ELSE /\ sess' = [sess EXCEPT ![s].pc = "activate_commit",
                                    ![s].activated = TRUE]
            /\ reply' = NoReply
            /\ UNCHANGED versions
    /\ UNCHANGED <<adjustments, activated_once>>
    /\ UNCHANGED <<engineVars, resolveVars, gameVars, gamesVars, logVars,
                   random_stream>>

\* lines 152-154: db.commit()
activate_commit(s) ==
    /\ sess[s].pc = "activate_commit"
    /\ versions' =
           [w \in VIds |->
               IF w = sess[s].version /\ Exists(versions, w)
               THEN [versions[w] EXCEPT !.is_active = TRUE]
               ELSE IF w \in sess[s].deactivated
               THEN [versions[w] EXCEPT !.is_active = FALSE]
               ELSE versions[w]]
    /\ Finish(s, [op |-> "activate_version", status |-> 200,
                  version |-> sess[s].version])
    /\ activated_once' = TRUE
    /\ UNCHANGED adjustments
    /\ UNCHANGED <<engineVars, resolveVars, gameVars, gamesVars, logVars,
                   random_stream>>

\* ---- GET /parameters/current (routers/logging.py:90-96) ----
\* ParameterManager.get_current_version, lines 29-39: the SELECT of the
\* active row; .first() yields one of the rows that match.  seen is the set
\* of versions that are active in the rows this SELECT read.  No row: the
\* request goes on to create_default_version.
current_select(s) ==
    /\ sess[s].pc = "idle"
    /\ IF ActiveIds(versions) # {}
       THEN \E v \in ActiveIds(versions) :
                Finish(s, [op |-> "get_current_parameters", status |-> 200,
                           version |-> v,
                           parameters |-> get_parameters(versions, v),
                           bootstrapped |-> FALSE,
                           seen |-> ActiveIds(versions)])
       ELSE /\ sess' = [sess EXCEPT ![s] =
                           [IdleSession EXCEPT !.pc = "create_default"]]
            /\ reply' = NoReply
    /\ UNCHANGED <<versions, adjustments, activated_once>>
    /\ UNCHANGED <<engineVars, resolveVars, gameVars, gamesVars, logVars,
                   random_stream>>

\* ParameterManager.create_default_version, lines 57-71: INSERT and commit;
\* the primary key rejects a second row "1.0.0" (IntegrityError, 500).
create_default_version(s) ==
    /\ sess[s].pc = "create_default"
    /\ ~Blocked(s)
    /\ IF Exists(versions, "1.0.0")
       THEN /\ Finish(s, [op |-> "get_current_parameters", status |-> 500,
                          bootstrapped |-> TRUE])
            /\ UNCHANGED versions
       ELSE /\ versions' =
                   [versions EXCEPT !["1.0.0"] =
                       [parameters |-> DefaultParameters,
                        description |-> "Initial default parameters",
                        is_active |-> TRUE]]
            /\ Finish(s, [op |-> "get_current_parameters", status |-> 200,
                          version |-> "1.0.0",
                          parameters |-> DefaultParameters,
                          bootstrapped |-> TRUE])
    /\ UNCHANGED <<adjustments, activated_once>>
    /\ UNCHANGED <<engineVars, resolveVars, gameVars, gamesVars, logVars,
                   random_stream>>

\* ---- GET /parameters/versions (routers/logging.py:70-87) ----
get_all_versions(s) ==
    /\ sess[s].pc = "idle"
    /\ Finish(s, [op |-> "get_all_versions", status |-> 200,
                  listed |-> { v \in VIds : Exists(versions, v) },
                  seen |-> ActiveIds(versions)])
    /\ UNCHANGED <<versions, adjustments, activated_once>>
    /\ UNCHANGED <<engineVars, resolveVars, gameVars, gamesVars, logVars,
                   random_stream>>

\* ---- GET /parameters/{version} (routers/logging.py:99-106) ----
get_parameters_by_version(s, v) ==
    /\ sess[s].pc = "idle"
    /\ LET parameters == get_parameters(versions, v)
       IN  IF DOMAIN parameters = {}
           THEN Finish(s, [op |-> "get_parameters_by_version",
                           status |-> 404, version |-> v,
                           found |-> Exists(versions, v)])
           ELSE Finish(s, [op |-> "get_parameters_by_version",
                           status |-> 200, version |-> v,
                           found |-> Exists(versions, v),
                           parameters |-> parameters])
    /\ UNCHANGED <<versions, adjustments, activated_once>>
    /\ UNCHANGED <<engineVars, resolveVars, gameVars, gamesVars, logVars,
                   random_stream>>

\* ---- POST /parameters/versions (routers/logging.py:109-131) ----
\* ParameterManager.create_new_version, lines 112-115: read the base tree and
\* apply the changes; an exception becomes the response 400 (line 130-131).
\* base_params is the tree as the SELECT read it, base_row the tree that the
\* session's object of the base row holds after the changes were applied.
create_new_version(s, new, base, changes, description) ==
    /\ sess[s].pc = "idle"
    /\ LET base_params == get_parameters(versions, base)
           r == apply_parameter_changes(base_params, changes)
       IN  IF ~r.ok
           THEN Finish(s, [op |-> "create_new_version", status |-> 400,
                           version |-> new,
                           base_found |-> Exists(versions, base),
                           new_found |-> Exists(versions, new)])
           ELSE /\ sess' = [sess EXCEPT ![s] =
                               [IdleSession EXCEPT
                                   !.pc = "create_insert",
                                   !.version = new,
                                   !.base = base,
                                   !.changes = changes,
                                   !.description = description,
                                   !.base_found = Exists(versions, base),
                                   !.base_params = base_params,
                                   !.base_row =
                                       base_params_after(
                                           base_params, base_params,
                                           TopKeys(base_params), changes),
                                   !.new_params = r.params]]
                /\ reply' = NoReply
    /\ UNCHANGED <<versions, adjustments, activated_once>>
    /\ UNCHANGED <<engineVars, resolveVars, gameVars, gamesVars, logVars,
                   random_stream>>

\* lines 117-141: INSERT the version row, INSERT the adjustment row, commit.
\* The primary key of parameter_versions rejects a version that exists; the
\* foreign keys of parameter_adjustments (models/logging.py:140-145) reject
\* a base_version that is no row of parameter_versions (the version row of
\* this request is inserted first and counts).
\* new_found is whether a row with the new version was there at the INSERT.
new_version_row_active(new_params, description) ==
    [parameters |-> new_params, description |-> description,
     is_active |-> TRUE]

\* lines 118-124
new_version_row(new_params, description) ==
    [parameters |-> new_params, description |-> description,
     is_active |-> FALSE]

insert_rejected_foreign_key_only(tbl, new, base) ==
    ~(Exists(tbl, base) \/ base = new)

insert_rejected(tbl, new, base) ==
    \/ Exists(tbl, new)
    \/ ~(Exists(tbl, base) \/ base = new)

create_insert(s) ==
    /\ sess[s].pc = "create_insert"
    /\ ~Blocked(s)
    /\ IF insert_rejected(versions, sess[s].version, sess[s].base)
       THEN /\ Finish(s, [op |-> "create_new_version", status |-> 400,
                          version |-> sess[s].version,
                          base_found |-> sess[s].base_found,
                          new_found |-> Exists(versions, sess[s].version)])
            /\ UNCHANGED <<versions, adjustments>>
       ELSE /\ versions' =
                   [versions EXCEPT ![sess[s].version] =
                       new_version_row(sess[s].new_params,
                                       sess[s].description)]
            /\ adjustments' =
                   adjustments \cup
                       {[base_version |-> sess[s].base,
                         new_version |-> sess[s].version,
                         parameter_changes |-> sess[s].changes]}
            /\ Finish(s, [op |-> "create_new_version", status |-> 200,
                          version |-> sess[s].version,
                          base |-> sess[s].base,
                          changes |-> sess[s].changes,
                          base_found |-> sess[s].base_found,
                          new_found |-> Exists(versions, sess[s].version),
                          base_params |-> sess[s].base_params,
                          parameters |-> sess[s].new_params,
                          is_active |-> FALSE])
    /\ UNCHANGED activated_once
    /\ UNCHANGED <<engineVars, resolveVars, gameVars, gamesVars, logVars,
                   random_stream>>

(***************************************************************************)
(* Inputs of the requests.                                                 *)
(***************************************************************************)
KeyPower == <<"batting", Dot, "power_base">>
KeyBatting == <<"batting">>
KeySwing == <<"tuning", Dot, "swing", Dot, "base">>
KeyUnderLeaf == <<"batting", Dot, "power_base", Dot, "max">>

\* the (key, value) pairs a request may put into parameter_changes
Changes ==
    { [key |-> KeyPower, value |-> 90],
      [key |-> KeyPower, value |-> 99],
      [key |-> KeyBatting, value |-> 99],
      [key |-> KeySwing, value |-> 99],
      [key |-> KeyUnderLeaf, value |-> 99] }

\* parameter_changes: a JSON object, at most MaxChanges keys, in its order
MaxChanges == 2

ChangeLists(items) ==
    { c \in UNION { [1..n -> items] : n \in 0..MaxChanges } :
        \A i, j \in 1..Len(c) : i # j => c[i].key # c[j].key }

Descriptions == {"tuned", "retuned"}

StoreNext(S, ids, changeLists, descriptions) ==
    \E s \in S :
        \/ \E v \in ids : activate_deactivate(s, v)
        \/ activate_mark(s)
        \/ activate_commit(s)
        \/ current_select(s)
        \/ create_default_version(s)
        \/ get_all_versions(s)
        \/ \E v \in ids : get_parameters_by_version(s, v)
        \/ \E new \in ids, base \in ids, c \in changeLists,
              d \in descriptions :
                create_new_version(s, new, base, c, d)
        \/ create_insert(s)

Init ==
    /\ StoreIdle
    /\ EngineIdle
    /\ ResolveIdle
    /\ GameIdle
    /\ GamesIdle
    /\ LogIdle
    /\ StreamIdle

(***************************************************************************)
(* Spec: requests of two clients, their statements interleaved.            *)
(***************************************************************************)
Next ==
    StoreNext(Sessions, {"1.0.0", "1.1.0"},
              ChangeLists({[key |-> KeyPower, value |-> 99]}), {"tuned"})

Spec == Init /\ [][Next]_vars

(***************************************************************************)
(* SpecInherit: one client that bootstraps the store, creates versions     *)
(* under ids that are not taken yet, with every list of parameter changes, *)
(* and reads parameters back; its requests run one after the other.        *)
(***************************************************************************)
NextInherit ==
    \E s \in {"s1"} :
        \/ current_select(s)
        \/ create_default_version(s)
        \/ \E new \in { v \in {"1.1.0", "1.2.0"} : ~Exists(versions, v) },
              base \in VIds, c \in ChangeLists(Changes) :
                create_new_version(s, new, base, c, "tuned")
        \/ create_insert(s)
        \/ \E v \in VIds : get_parameters_by_version(s, v)

SpecInherit == Init /\ [][NextInherit]_vars

(***************************************************************************)
(* SpecGame: one game played through the endpoints of app/main.py, from    *)
(* start_game on, by any sequence of pitch, next-pitch and toggle-pitching *)
(* requests.  Each request is one transaction on the row of the game.      *)
(***************************************************************************)
MaxPitches == 9     \* pitch requests of the game

\* GameEngine.generate_cpu_guess: the guesses it can return for a count
generate_cpu_guess_any_zone(context) ==
    [type : IF context.strikes >= 2 THEN {"any", "fastball"}
            ELSE IF context.balls >= 3 THEN {"fastball", "changeup"}
            ELSE GuessType,
     zone : 1..17]

generate_cpu_guess(context) ==
    [type : IF context.strikes >= 2 THEN {"any", "fastball"}
            ELSE IF context.balls >= 3 THEN {"fastball", "changeup"}
            ELSE GuessType,
     zone : 1..9]

\* GameEngine.generate_cpu_pitch: the pitches it can return; both zone
\* ranges have a positive chance for every count
generate_cpu_pitch(context) ==
    [type : PitchType, zone : (10..17) \cup (1..9)]

\* the pitches, guesses and draws of calculate_result played in SpecGame
PlayedPitches ==
    { [type |-> "fastball", zone |-> 5], [type |-> "fastball", zone |-> 12] }
PlayedGuesses ==
    { [type |-> "any", zone |-> 1], [type |-> "fastball", zone |-> 5] }
PlayedDraws == {0, 50, 99}

\* start_game (main.py:49-68): the row of the new game, column defaults of
\* models/game.py:47-60
InitGame ==
    /\ \E player_pitching \in BOOLEAN :
           db_game = [balls |-> 0, strikes |-> 0, outs |-> 0, inning |-> 1,
                      player_score |-> 0, cpu_score |-> 0,
                      is_player_pitching |-> player_pitching,
                      game_phase |-> "selecting"]
    /\ pitch_record = NoValue
    /\ EngineIdle
    /\ ResolveIdle
    /\ StoreIdle
    /\ GamesIdle
    /\ LogIdle
    /\ StreamIdle

pitches_count == IF pitch_record = NoValue THEN 0 ELSE pitch_record.pitch_number

\* The count that lines 150-152 put into the pitch row: they read db_game
\* after lines 133-135 have assigned the updated count to it.
count_written(game, updated) ==
    [balls |-> updated.balls, strikes |-> updated.strikes,
     outs |-> updated.outs]

\* execute_pitch (main.py:90-176).  pitch is request.player_pitch when the
\* player pitches and the CPU's pitch otherwise; guess likewise; r is the
\* draw of calculate_result.
execute_pitch(pitch, guess, r) ==
    /\ pitches_count < MaxPitches
    /\ LET context == [balls |-> db_game.balls, strikes |-> db_game.strikes,
                       inning |-> db_game.inning]
       IN  IF db_game.is_player_pitching
           THEN guess \in generate_cpu_guess(context)
           ELSE pitch \in generate_cpu_pitch(context)
    /\ LET res == calculate_result(pitch, guess, r)
           updated == update_game_state(db_game, res.result_type, res.is_ball)
           before == count_written(db_game, updated)
       IN  /\ db_game' = [db_game EXCEPT
                             !.balls = updated.balls,
                             !.strikes = updated.strikes,
                             !.outs = updated.outs,
                             !.player_score = updated.score.player,
                             !.cpu_score = updated.score.cpu,
                             !.game_phase = "result"]
           /\ pitch_record' =
                  [pitch_number |-> pitches_count + 1,
                   pitch_type |-> pitch.type, pitch_zone |-> pitch.zone,
                   guess_type |-> guess.type, guess_zone |-> guess.zone,
                   result_type |-> res.result_type, is_ball |-> res.is_ball,
                   balls_before |-> before.balls,
                   strikes_before |-> before.strikes,
                   outs_before |-> before.outs,
                   inning |-> db_game.inning,
                   is_pitcher_player |-> db_game.is_player_pitching]
    /\ UNCHANGED <<engineVars, resolveVars, storeVars, gamesVars, logVars,
                   random_stream>>

\* next_pitch (main.py:179-189)
next_pitch ==
    /\ db_game' = [db_game EXCEPT !.game_phase = "selecting"]
    /\ UNCHANGED pitch_record
    /\ UNCHANGED <<engineVars, resolveVars, storeVars, gamesVars, logVars,
                   random_stream>>

\* toggle_pitching (main.py:192-208)
toggle_pitching ==
    /\ db_game' = [db_game EXCEPT
                      !.is_player_pitching = ~db_game.is_player_pitching,
                      !.balls = 0,
                      !.strikes = 0,
                      !.game_phase = "selecting"]
    /\ UNCHANGED pitch_record
    /\ UNCHANGED <<engineVars, resolveVars, storeVars, gamesVars, logVars,
                   random_stream>>

NextGame ==
    \/ \E pitch \in PlayedPitches, guess \in PlayedGuesses, r \in PlayedDraws :
           execute_pitch(pitch, guess, r)
    \/ next_pitch
    \/ toggle_pitching

SpecGame == InitGame /\ [][NextGame]_vars

(***************************************************************************)
(* SpecTurn: the resolution of turns in execute_pitch (main.py:99-124) for *)
(* every count, with the values of random.random() that calculate_result   *)
(* is going to get laid out in random_stream.                              *)
(***************************************************************************)
StreamLen == 2      \* draws laid out for calculate_result

\* calculate_result with its random source: the ball branch draws once
\* (line 107), the strike branch draws once (line 122); rest is what the
\* source returns to later calls.
calculate_result_two_draws(pitch, guess, stream) ==
    IF ~is_strike_zone(pitch)
    THEN [outcome |-> calculate_result(pitch, guess, stream[1]),
          rest |-> Tail(stream)]
    ELSE [outcome |-> calculate_result(pitch, guess, stream[1]),
          rest |-> IF Len(stream) >= 2 THEN Tail(Tail(stream)) ELSE <<>>]

calculate_result_drawing(pitch, guess, stream) ==
    IF ~is_strike_zone(pitch)
    THEN [outcome |-> calculate_result(pitch, guess, stream[1]),
          rest |-> Tail(stream)]
    ELSE [outcome |-> calculate_result(pitch, guess, stream[1]),
          rest |-> Tail(stream)]

\* what the request of a turn carries: the player's pitch and guess
TurnPitches ==
    { [type |-> "fastball", zone |-> 5], [type |-> "changeup", zone |-> 12] }
TurnGuesses ==
    { [type |-> "any", zone |-> 5], [type |-> "changeup", zone |-> 12] }
TurnDraws == {0, 99}

InitTurn ==
    /\ current_state \in { g \in GameRows :
                             g.outs = 0 /\ g.player_score = 0
                                 /\ g.cpu_score = 0 }
    /\ turn = [result_type |-> "ball", is_ball |-> TRUE]
    /\ updated_state = NoValue
    /\ actual_pitch \in TurnPitches
    /\ batter_guess \in TurnGuesses
    /\ random_val = 0
    /\ result = NoValue
    /\ random_stream \in [1..StreamLen -> TurnDraws]
    /\ StoreIdle
    /\ GameIdle
    /\ GamesIdle
    /\ LogIdle

\* main.py:99-124: the side that is not the player's is generated, then the
\* turn is resolved
ResolveTurn ==
    /\ random_stream # <<>>
    /\ LET context == [balls |-> current_state.balls,
                       strikes |-> current_state.strikes,
                       inning |-> current_state.inning]
       IN  IF current_state.is_player_pitching
           THEN /\ batter_guess' \in generate_cpu_guess(context)
                /\ UNCHANGED actual_pitch
           ELSE /\ actual_pitch' \in generate_cpu_pitch(context)
                /\ UNCHANGED batter_guess
    /\ LET res == calculate_result_drawing(actual_pitch', batter_guess',
                                           random_stream)
       IN  /\ result' = res.outcome
           /\ random_stream' = res.rest
    /\ random_val' = Head(random_stream)
    /\ UNCHANGED <<engineVars, storeVars, gameVars, gamesVars, logVars>>

NextTurn == ResolveTurn

SpecTurn == InitTurn /\ [][NextTurn]_vars

(***************************************************************************)
(* SpecGames: several games, each played by a client of its own that sends *)
(* its requests one after the other; the requests of different clients are *)
(* interleaved statement by statement.  Every request runs in a session of *)
(* its own: what it reads is the committed state at its first SELECT, what *)
(* it writes reaches the tables at its commit.                             *)
(***************************************************************************)
MaxRows == 3        \* rows of table pitches

\* rows of one game in table pitches, in the order of their ids
game_pitches_of_any_game(tbl, g) == tbl

game_pitches(tbl, g) == SelectSeq(tbl, LAMBDA p : p.game_id = g)

\* the number of the next pitch of a game whose loaded pitch rows are rows
\* (main.py:143)
pitch_number_from_zero(rows) == Len(rows)

next_pitch_number(rows) == Len(rows) + 1

\* start_game (main.py:49-68) and the column defaults of models/game.py
new_game(player_pitching) ==
    [balls |-> 0, strikes |-> 0, outs |-> 0, inning |-> 1,
     player_score |-> 0, cpu_score |-> 0,
     is_player_pitching |-> player_pitching, game_phase |-> "selecting"]

\* execute_pitch, lines 123-157: the row of the game and the row of table
\* pitches that the request is going to commit; rows are the pitch rows of
\* the game that the session has loaded (db_game.pitches)
resolve_pitch(g, game, rows, pitch, guess, r) ==
    LET res == calculate_result(pitch, guess, r)
        updated == update_game_state(game, res.result_type, res.is_ball)
        before == count_written(game, updated)
    IN  [row |-> [game EXCEPT !.balls = updated.balls,
                              !.strikes = updated.strikes,
                              !.outs = updated.outs,
                              !.player_score = updated.score.player,
                              !.cpu_score = updated.score.cpu,
                              !.game_phase = "result"],
         record |-> [game_id |-> g,
                     pitch_number |-> next_pitch_number(rows),
                     pitch_type |-> pitch.type, pitch_zone |-> pitch.zone,
                     guess_type |-> guess.type, guess_zone |-> guess.zone,
                     result_type |-> res.result_type,
                     is_ball |-> res.is_ball,
                     balls_before |-> before.balls,
                     strikes_before |-> before.strikes,
                     outs_before |-> before.outs,
                     inning |-> game.inning,
                     is_pitcher_player |-> game.is_player_pitching]]

\* the request of the client of game g ends with response r
Respond(g, r) ==
    /\ gsess' = [gsess EXCEPT ![g] = IdleRequest]
    /\ reply' = r

start_game(g, player_pitching) ==
    /\ games[g] = NoValue
    /\ gsess[g].pc = "idle"
    /\ games' = [games EXCEPT ![g] = new_game(player_pitching)]
    /\ Respond(g, [op |-> "start_game", status |-> 200, game_id |-> g])
    /\ UNCHANGED pitches
    /\ UNCHANGED <<versions, adjustments, sess, activated_once>>
    /\ UNCHANGED <<engineVars, resolveVars, gameVars, logVars, random_stream>>

\* execute_pitch, lines 94-157: everything up to the commit.  request is the
\* body of the request, cpu_pitch and cpu_guess what the CPU side generates
\* when it is asked, r the draw of calculate_result.
execute_pitch_select(g, request, cpu_pitch, cpu_guess, r) ==
    /\ gsess[g].pc = "idle"
    /\ Len(pitches) + Cardinality({h \in GameIds : gsess[h].pc # "idle"})
           < MaxRows
    /\ IF games[g] = NoValue
       THEN Respond(g, [op |-> "execute_pitch", status |-> 404,
                        game_id |-> g])
       ELSE
         LET game == games[g]
             context == [balls |-> game.balls, strikes |-> game.strikes,
                         inning |-> game.inning]
             missing == IF game.is_player_pitching
                        THEN request.player_pitch = NoValue
                        ELSE request.player_guess = NoValue
             pitch == IF game.is_player_pitching THEN request.player_pitch
                      ELSE cpu_pitch
             guess == IF game.is_player_pitching THEN cpu_guess
                      ELSE request.player_guess
         IN  /\ cpu_pitch \in generate_cpu_pitch(context)
             /\ cpu_guess \in generate_cpu_guess(context)
             /\ IF missing
                THEN Respond(g, [op |-> "execute_pitch", status |-> 400,
                                 game_id |-> g])
                ELSE /\ gsess' = [gsess EXCEPT ![g] =
                                     [pc |-> "pitch_commit",
                                      request |-> request,
                                      write |-> resolve_pitch(
                                                   g, game,
                                                   game_pitches(pitches, g),
                                                   pitch, guess, r)]]
                     /\ reply' = NoReply
    /\ UNCHANGED <<games, pitches>>
    /\ UNCHANGED <<versions, adjustments, sess, activated_once>>
    /\ UNCHANGED <<engineVars, resolveVars, gameVars, logVars, random_stream>>

\* execute_pitch, lines 158-176: db.commit() and the response
execute_pitch_commit(g) ==
    /\ gsess[g].pc = "pitch_commit"
    /\ games' = [games EXCEPT ![g] = gsess[g].write.row]
    /\ pitches' = Append(pitches, gsess[g].write.record)
    /\ Respond(g, [op |-> "execute_pitch", status |-> 200, game_id |-> g])
    /\ UNCHANGED <<versions, adjustments, sess, activated_once>>
    /\ UNCHANGED <<engineVars, resolveVars, gameVars, logVars, random_stream>>

\* next_pitch (main.py:179-189), for the game g
selecting_with_count_reset(game) ==
    [game EXCEPT !.game_phase = "selecting", !.balls = 0, !.strikes = 0]

selecting(game) == [game EXCEPT !.game_phase = "selecting"]

next_pitch_of(g) ==
    /\ gsess[g].pc = "idle"
    /\ IF games[g] = NoValue
       THEN /\ UNCHANGED games
            /\ Respond(g, [op |-> "next_pitch", status |-> 404,
                           game_id |-> g])
       ELSE /\ games' = [games EXCEPT ![g] = selecting(games[g])]
            /\ Respond(g, [op |-> "next_pitch", status |-> 200,
                           game_id |-> g])
    /\ UNCHANGED pitches
    /\ UNCHANGED <<versions, adjustments, sess, activated_once>>
    /\ UNCHANGED <<engineVars, resolveVars, gameVars, logVars, random_stream>>

\* toggle_pitching (main.py:192-208), for the game g
toggled_clearing_outs(game) ==
    [game EXCEPT !.is_player_pitching = ~game.is_player_pitching,
                 !.balls = 0,
                 !.strikes = 0,
                 !.outs = 0,
                 !.game_phase = "selecting"]

toggled(game) ==
    [game EXCEPT !.is_player_pitching = ~game.is_player_pitching,
                 !.balls = 0,
                 !.strikes = 0,
                 !.game_phase = "selecting"]

toggle_pitching_of(g) ==
    /\ gsess[g].pc = "idle"
    /\ IF games[g] = NoValue
       THEN /\ UNCHANGED games
            /\ Respond(g, [op |-> "toggle_pitching", status |-> 404,
                           game_id |-> g])
       ELSE /\ games' = [games EXCEPT ![g] = toggled(games[g])]
            /\ Respond(g, [op |-> "toggle_pitching", status |-> 200,
                           game_id |-> g])
    /\ UNCHANGED pitches
    /\ UNCHANGED <<versions, adjustments, sess, activated_once>>
    /\ UNCHANGED <<engineVars, resolveVars, gameVars, logVars, random_stream>>

\* ORDER BY pitch_number: a stable sort of the rows
RECURSIVE order_by_pitch_number(_)
order_by_pitch_number(rows) ==
    IF rows = <<>> THEN <<>>
    ELSE LET i == CHOOSE i \in 1..Len(rows) :
                      /\ \A j \in 1..Len(rows) :
                             rows[i].pitch_number <= rows[j].pitch_number
                      /\ \A j \in 1..(i - 1) :
                             rows[j].pitch_number # rows[i].pitch_number
         IN  <<rows[i]>> \o order_by_pitch_number(
                                SubSeq(rows, 1, i - 1)
                                    \o SubSeq(rows, i + 1, Len(rows)))

\* get_game_history (main.py:249-272)
get_game_history(g) ==
    /\ gsess[g].pc = "idle"
    /\ Respond(g, [op |-> "get_game_history", status |-> 200, game_id |-> g,
                   history |-> order_by_pitch_number(
                                   game_pitches(pitches, g))])
    /\ UNCHANGED <<games, pitches>>
    /\ UNCHANGED <<versions, adjustments, sess, activated_once>>
    /\ UNCHANGED <<engineVars, resolveVars, gameVars, logVars, random_stream>>

\* bodies of the pitch requests, and what the CPU side and the draw are
\* taken from, in SpecGames
PitchRequests ==
    { [player_pitch |-> [type |-> "fastball", zone |-> 5],
       player_guess |-> NoValue],
      [player_pitch |-> [type |-> "changeup", zone |-> 12],
       player_guess |-> NoValue],
      [player_pitch |-> NoValue,
       player_guess |-> [type |-> "any", zone |-> 1]] }
CpuPitches == { [type |-> "changeup", zone |-> 5] }
CpuGuesses == { [type |-> "fastball", zone |-> 5] }
GamesDraws == {0}

InitGames ==
    /\ GamesIdle
    /\ StoreIdle
    /\ EngineIdle
    /\ ResolveIdle
    /\ GameIdle
    /\ LogIdle
    /\ StreamIdle

NextGames ==
    \E g \in GameIds :
        \/ \E player_pitching \in BOOLEAN : start_game(g, player_pitching)
        \/ \E request \in PitchRequests, cpu_pitch \in CpuPitches,
              cpu_guess \in CpuGuesses, r \in GamesDraws :
                execute_pitch_select(g, request, cpu_pitch, cpu_guess, r)
        \/ execute_pitch_commit(g)
        \/ next_pitch_of(g)
        \/ toggle_pitching_of(g)
        \/ get_game_history(g)

SpecGames == InitGames /\ [][NextGames]_vars

(***************************************************************************)
(* SpecZones: calculate_result applied to the pitch and the guess of a     *)
(* request as the schemas admit them: zone is declared int, without a      *)
(* range (schemas/game.py:34-41), so a request may carry a zone outside    *)
(* 1..17 (pitch) or 1..9 (guess).                                          *)
(***************************************************************************)
ZoneSlack == 1      \* how far beyond its range a submitted zone may lie

SubmittedPitches ==
    [type : {"fastball", "changeup"}, zone : (1 - ZoneSlack)..(17 + ZoneSlack)]
SubmittedGuesses ==
    [type : {"any", "fastball"}, zone : (1 - ZoneSlack)..(9 + ZoneSlack)]

InitZones ==
    /\ actual_pitch \in SubmittedPitches
    /\ batter_guess \in SubmittedGuesses
    /\ random_val \in Draws
    /\ result = NoValue
    /\ EngineIdle
    /\ StoreIdle
    /\ GameIdle
    /\ GamesIdle
    /\ LogIdle
    /\ StreamIdle

SpecZones == InitZones /\ [][NextResolve]_vars

(***************************************************************************)
(* SpecTuning: one client that creates and activates parameter versions    *)
(* whose hit probability differs from the default, while turns are         *)
(* resolved (execute_pitch, main.py:123-124).                              *)
(***************************************************************************)
KeyHit == <<"game_mechanics", Dot, "hit_probability_base">>

\* the chances calculate_result compares its draw with when the active
\* version of the store holds the tree parameters: neither calculate_result
\* nor _calculate_hit_chance nor _get_ball_swing_chance takes or reads the
\* parameters (game_engine.py:98-162), and execute_pitch passes none
resolver_chances(parameters, pitch, guess) ==
    [hit |-> calculate_hit_chance(pitch.zone = guess.zone,
                                  guess.type = "any"
                                      \/ pitch.type = guess.type,
                                  pitch, guess),
     swing |-> get_ball_swing_chance(pitch, guess)]

resolve_turn(pitch, guess, r) ==
    /\ actual_pitch' = pitch
    /\ batter_guess' = guess
    /\ random_val' = r
    /\ result' = calculate_result(pitch, guess, r)
    /\ UNCHANGED <<engineVars, storeVars, gameVars, gamesVars, logVars,
                   random_stream>>

NextTuning ==
    \/ StoreNext({"s1"}, {"1.0.0", "1.1.0"},
                 ChangeLists({[key |-> KeyHit, value |-> 50]}), {"tuned"})
    \/ \E pitch \in TurnPitches, guess \in TurnGuesses, r \in TurnDraws :
           resolve_turn(pitch, guess, r)

SpecTuning == Init /\ [][NextTuning]_vars

(***************************************************************************)
(* SpecLog: games are played and their completion is logged (end_game,     *)
(* main.py:211-232, and complete_game, routers/logging.py:156-186, both    *)
(* through GameLogger.log_game_completion) while a client creates and      *)
(* activates parameter versions.                                           *)
(***************************************************************************)
MaxLogs == 2        \* rows of table game_details

\* GameLogger._determine_winner
determine_winner_tie_to_player(player_score, cpu_score) ==
    IF player_score >= cpu_score THEN "player" ELSE "cpu"

determine_winner(player_score, cpu_score) ==
    IF player_score > cpu_score THEN "player"
    ELSE IF cpu_score > player_score THEN "cpu"
    ELSE "tie"

\* len([p for p in pitches if ...]) of log_game_completion and
\* _update_player_statistics
RECURSIVE count_rows(_, _, _)
count_rows(rows, pitcher_player, hits_only) ==
    IF rows = <<>> THEN 0
    ELSE (IF /\ Head(rows).is_pitcher_player = pitcher_player
             /\ (hits_only => Head(rows).result_type = "hit")
          THEN 1 ELSE 0)
         + count_rows(Tail(rows), pitcher_player, hits_only)

\* the GameDetail row of log_game_completion (lines 198-213)
game_detail_row(g, version, game, rows) ==
    [game_id |-> g,
     version |-> version,
     final_player_score |-> game.player_score,
     final_cpu_score |-> game.cpu_score,
     total_innings |-> game.inning,
     winner |-> determine_winner(game.player_score, game.cpu_score),
     total_pitches |-> Len(rows),
     hits_player |-> count_rows(rows, FALSE, TRUE),
     hits_cpu |-> count_rows(rows, TRUE, TRUE)]

\* PlayerStatistics(version=..., player_type=..., date_from=..., date_to=...)
\* (lines 251-257): the counters of the new object are None, their column
\* default 0 (models/logging.py) is filled in when the row is inserted
new_statistics(version, player_type) ==
    [version |-> version, player_type |-> player_type,
     games_played |-> NoValue, at_bats |-> NoValue, hits |-> NoValue,
     batting_avg |-> NoValue, wins |-> NoValue, losses |-> NoValue,
     win_rate |-> NoValue]

\* a / b as the DECIMAL(4, 3) column stores it, in thousandths; 0.000 when
\* b is 0 (lines 272-274, 293-295)
ratio(a, b) == IF b > 0 THEN (2000 * a + b) \div (2 * b) ELSE 0

\* one round of the loop of _update_player_statistics (lines 239-300) on the
\* rows tbl of table player_statistics as the session holds them; raised
\* when stats.games_played += 1 meets None (TypeError)
statistics_round(tbl, version, player_type, detail, rows) ==
    LET found == { i \in 1..Len(tbl) :
                     /\ tbl[i].version = version
                     /\ tbl[i].player_type = player_type }
        i == IF found = {} THEN Len(tbl) + 1
             ELSE CHOOSE k \in found : \A j \in found : k <= j
        held == IF found = {}
                THEN Append(tbl, new_statistics(version, player_type))
                ELSE tbl
        stats == held[i]
        own == IF player_type = "human" THEN "player" ELSE "cpu"
        other == IF player_type = "human" THEN "cpu" ELSE "player"
        pitcher == player_type = "cpu"
        at_bats == stats.at_bats + count_rows(rows, pitcher, FALSE)
        hits == stats.hits + count_rows(rows, pitcher, TRUE)
        wins == IF detail.winner = own THEN stats.wins + 1 ELSE stats.wins
        losses == IF detail.winner = other THEN stats.losses + 1
                  ELSE stats.losses
    IN  IF stats.games_played = NoValue
        THEN [raised |-> TRUE, table |-> held]
        ELSE [raised |-> FALSE,
              table |->
                  [held EXCEPT ![i] =
                      [stats EXCEPT
                          !.games_played = @ + 1,
                          !.at_bats = at_bats,
                          !.hits = hits,
                          !.batting_avg = ratio(hits, at_bats),
                          !.wins = wins,
                          !.losses = losses,
                          !.win_rate = ratio(wins, wins + losses)]]]

\* _update_player_statistics: the table after its commit, or the exception
update_player_statistics(tbl, version, detail, rows) ==
    LET human == statistics_round(tbl, version, "human", detail, rows)
        cpu == statistics_round(human.table, version, "cpu", detail, rows)
    IN  IF human.raised THEN [raised |-> TRUE, table |-> tbl]
        ELSE IF cpu.raised THEN [raised |-> TRUE, table |-> tbl]
        ELSE cpu

\* a request that logs the completion of the game g, answered under the
\* name op: the game is loaded, log_game_completion runs, and an exception
\* it raises is answered 500
log_completion(g, op) ==
    /\ gsess[g].pc = "idle"
    /\ Len(game_details) < MaxLogs
    \* the INSERTs check their foreign key on parameter_versions.version and
    \* wait while another session holds the rows of that table locked
    /\ \A s \in Sessions : ~HoldsLocks(s)
    /\ IF games[g] = NoValue
       THEN /\ Respond(g, [op |-> op, status |-> 404, game_id |-> g])
            /\ UNCHANGED <<versions, game_details, player_statistics>>
       ELSE IF ActiveIds(versions) = {} /\ Exists(versions, "1.0.0")
       THEN \* create_default_version: duplicate primary key
            /\ Respond(g, [op |-> op, status |-> 500, game_id |-> g])
            /\ UNCHANGED <<versions, game_details, player_statistics>>
       ELSE \E current_version \in
                 IF ActiveIds(versions) = {} THEN {"1.0.0"}
                 ELSE ActiveIds(versions) :
              LET rows == game_pitches(pitches, g)
                  detail == game_detail_row(g, current_version, games[g],
                                            rows)
                  updated == update_player_statistics(
                                 player_statistics, current_version, detail,
                                 rows)
              IN  /\ versions' =
                         IF ActiveIds(versions) = {}
                         THEN [versions EXCEPT !["1.0.0"] =
                                  [parameters |-> DefaultParameters,
                                   description |->
                                       "Initial default parameters",
                                   is_active |-> TRUE]]
                         ELSE versions
                  /\ game_details' = Append(game_details, detail)
                  /\ player_statistics' = updated.table
                  /\ Respond(g, [op |-> op,
                                 status |-> IF updated.raised THEN 500
                                            ELSE 200,
                                 game_id |-> g])
    /\ UNCHANGED <<games, pitches>>
    /\ UNCHANGED <<adjustments, sess, activated_once>>
    /\ UNCHANGED <<engineVars, resolveVars, gameVars, random_stream>>

\* POST /game/{game_id}/end (main.py:211-232)
end_game(g) == log_completion(g, "end_game")

\* POST /games/{game_id}/complete (routers/logging.py:158-186)
complete_game(g) == log_completion(g, "complete_game")

NextLog ==
    \/ \E g \in {"A"} :
          \/ \E player_pitching \in BOOLEAN : start_game(g, player_pitching)
          \/ \E request \in PitchRequests, cpu_pitch \in CpuPitches,
                cpu_guess \in CpuGuesses, r \in GamesDraws :
                  execute_pitch_select(g, request, cpu_pitch, cpu_guess, r)
          \/ execute_pitch_commit(g)
          \/ end_game(g)
          \/ complete_game(g)
    \/ \E s \in {"s1"} :
          \/ \E v \in {"1.0.0", "1.1.0"} : activate_deactivate(s, v)
          \/ activate_mark(s)
          \/ activate_commit(s)
          \/ create_new_version(s, "1.1.0", "1.0.0", <<>>, "tuned")
          \/ create_insert(s)

SpecLog == Init /\ [][NextLog]_vars

(***************************************************************************)
(* Claims about update_game_state, checked under SpecAdvance.              *)
(***************************************************************************)
Applied == updated_state # NoValue

BattingSide == IF current_state.is_player_pitching THEN "cpu" ELSE "player"
PitchingSide == IF current_state.is_player_pitching THEN "player" ELSE "cpu"

ScoreBefore(side) ==
    IF side = "player" THEN current_state.player_score
    ELSE current_state.cpu_score

ScoreAfter(side) == updated_state.score[side]

\* C3: update_game_state never lowers the player score or the cpu score and
\* never raises both in one call, whatever the game row and the outcome.
C3_ScoresMonotone ==
    Applied =>
        /\ ScoreAfter("player") >= ScoreBefore("player")
        /\ ScoreAfter("cpu") >= ScoreBefore("cpu")
        /\ ~(/\ ScoreAfter("player") > ScoreBefore("player")
             /\ ScoreAfter("cpu") > ScoreBefore("cpu"))

C3_Witness ==
    /\ Applied
    /\ current_state.player_score = 1
    /\ current_state.cpu_score = 1
    /\ ScoreAfter("cpu") = 2
    /\ ScoreAfter("player") = 1

\* C4: a ball adds one to balls; the ball that brings balls to 4 gives exactly
\* one point to the batting side, resets balls and strikes to 0 and leaves
\* outs alone; 3-0, no outs, 0-0, player pitching, ball => 0-0, no outs, cpu 1.
C4_BallAndWalk ==
    (Applied /\ turn.result_type = "ball") =>
        /\ updated_state.outs = current_state.outs
        /\ ScoreAfter(PitchingSide) = ScoreBefore(PitchingSide)
        /\ IF current_state.balls + 1 = 4
           THEN /\ updated_state.balls = 0
                /\ updated_state.strikes = 0
                /\ ScoreAfter(BattingSide) = ScoreBefore(BattingSide) + 1
           ELSE /\ updated_state.balls = current_state.balls + 1
                /\ ScoreAfter(BattingSide) = ScoreBefore(BattingSide)
        /\ (/\ current_state.balls = 3 /\ current_state.strikes = 0
            /\ current_state.outs = 0 /\ current_state.player_score = 0
            /\ current_state.cpu_score = 0 /\ current_state.is_player_pitching)
           => (/\ updated_state.balls = 0 /\ updated_state.strikes = 0
               /\ updated_state.outs = 0
               /\ updated_state.score = [player |-> 0, cpu |-> 1])

C4_Witness ==
    /\ Applied
    /\ turn.result_type = "ball"
    /\ current_state.balls = 3 /\ current_state.strikes = 0
    /\ current_state.outs = 0 /\ current_state.player_score = 0
    /\ current_state.cpu_score = 0 /\ current_state.is_player_pitching
    /\ updated_state.balls = 0
    /\ updated_state.score = [player |-> 0, cpu |-> 1]

\* C5: a hit gives exactly one point to the side that is batting, none to the
\* side that is pitching, and resets balls and strikes to 0, from every count.
C5_HitScoresBattingSide ==
    (Applied /\ turn.result_type = "hit") =>
        /\ ScoreAfter(BattingSide) = ScoreBefore(BattingSide) + 1
        /\ ScoreAfter(PitchingSide) = ScoreBefore(PitchingSide)
        /\ updated_state.balls = 0
        /\ updated_state.strikes = 0

C5_Witness ==
    /\ Applied
    /\ turn.result_type = "hit"
    /\ current_state.balls = 2 /\ current_state.strikes = 2
    /\ ~current_state.is_player_pitching
    /\ ScoreAfter("player") = ScoreBefore("player") + 1
    /\ updated_state.balls = 0 /\ updated_state.strikes = 0

\* C6: a foul adds a strike only below two strikes; at two strikes it changes
\* nothing (strikes, balls, outs, scores), so fouls alone never strike out.
C6_ProtectedFoul ==
    (Applied /\ turn.result_type = "foul") =>
        /\ updated_state.strikes =
               IF current_state.strikes < 2 THEN current_state.strikes + 1
               ELSE current_state.strikes
        /\ updated_state.strikes <= 2
        /\ updated_state.outs = current_state.outs
        /\ updated_state.balls = current_state.balls
        /\ ScoreAfter("player") = ScoreBefore("player")
        /\ ScoreAfter("cpu") = ScoreBefore("cpu")

C6_Witness ==
    /\ Applied
    /\ turn.result_type = "foul"
    /\ current_state.strikes = 2
    /\ current_state.balls = 1
    /\ updated_state.strikes = 2
    /\ updated_state.outs = current_state.outs

\* C7: the strike or swing_miss that brings strikes to 3 adds exactly one out
\* and resets balls and strikes to 0; one that leaves strikes below 3 adds a
\* strike and leaves outs alone.
C7_Strikeout ==
    (Applied /\ turn.result_type \in {"strike", "swing_miss"}) =>
        IF current_state.strikes + 1 = 3
        THEN /\ updated_state.outs = current_state.outs + 1
             /\ updated_state.balls = 0
             /\ updated_state.strikes = 0
        ELSE /\ updated_state.outs = current_state.outs
             /\ updated_state.strikes = current_state.strikes + 1

C7_Witness ==
    /\ Applied
    /\ turn.result_type = "swing_miss"
    /\ current_state.strikes = 2
    /\ current_state.balls = 3
    /\ current_state.outs = 1
    /\ updated_state.outs = 2
    /\ updated_state.balls = 0 /\ updated_state.strikes = 0

(***************************************************************************)
(* Claims about calculate_result, checked under SpecResolve.               *)
(***************************************************************************)
Resolved == result # NoValue

\* C8: a pitch in the ball region (zones 10..17) resolves to ball or
\* swing_miss only, for every guess and every draw.
C8_BallRegionOutcomes ==
    (Resolved /\ actual_pitch.zone \in 10..17) =>
        result.result_type \in {"ball", "swing_miss"}

C8_Witness ==
    /\ Resolved
    /\ actual_pitch.zone = 12
    /\ batter_guess.zone = 5
    /\ result.result_type = "swing_miss"

\* C9: a pitch in the strike region (zone <= 9) resolves to hit, foul or
\* strike, never to swing_miss or ball, for every guess and every draw.
C9_StrikeRegionOutcomes ==
    (Resolved /\ actual_pitch.zone <= 9) =>
        result.result_type \in {"hit", "foul", "strike"}

C9_Witness ==
    /\ Resolved
    /\ actual_pitch.zone = 9
    /\ batter_guess.zone = 9
    /\ result.result_type = "foul"

(***************************************************************************)
(* Claims about the parameter version store.                               *)
(***************************************************************************)
\* the step that led to this state answered a read of parameter_versions
ReadsStore ==
    \/ reply.op = "get_all_versions"
    \/ /\ reply.op = "get_current_parameters"
       /\ reply.status = 200
       /\ ~reply.bootstrapped

\* C1: in a run in which activate calls take place, whatever the
\* interleaving of their statements with the reads of other requests, every
\* read finds exactly one version with is_active = true.  (Reads made before
\* the first activation has committed are not counted.)
C1_ReadersSeeOneActive ==
    (activated_once /\ ReadsStore) => Cardinality(reply.seen) = 1

\* C2: right after every successful activate call exactly one version is
\* active, the one the call names; and when that version was the only active
\* one already, the call leaves the table as it was.
C2_ActivateLeavesOneActive ==
    [][ (reply'.op = "activate_version" /\ reply'.status = 200) =>
            /\ ActiveIds(versions') = {reply'.version}
            /\ (ActiveIds(versions) = {reply'.version} => versions' = versions)
      ]_vars

C2_Witness ==
    /\ reply.op = "activate_version"
    /\ reply.status = 200
    /\ reply.version = "1.1.0"
    /\ Exists(versions, "1.0.0")
    /\ ActiveIds(versions) = {"1.1.0"}

Created == reply.op = "create_new_version" /\ reply.status = 200

OverridePaths(changes) == { split(changes[i].key) : i \in 1..Len(changes) }

UnderOverride(p, changes) ==
    \E q \in OverridePaths(changes) : IsPrefix(q, p)

\* the tree newp holds every change of the list, and apart from the changed
\* paths it has the leaves of basep, with their values
InheritanceLaw(newp, basep, changes) ==
    /\ \A i \in 1..Len(changes) :
           /\ split(changes[i].key) \in DOMAIN newp
           /\ newp[split(changes[i].key)] = changes[i].value
    /\ \A p \in DOMAIN newp :
           p \notin OverridePaths(changes) =>
               p \in DOMAIN basep /\ newp[p] = basep[p]
    /\ \A p \in DOMAIN basep :
           ~UnderOverride(p, changes) =>
               p \in DOMAIN newp /\ newp[p] = basep[p]

\* no key of the list addresses a path at or below the path of another key
PrefixFree(changes) ==
    \A i, j \in 1..Len(changes) :
        i # j => ~IsPrefix(split(changes[i].key), split(changes[j].key))

\* C10 as stated: after create_new_version(new, base, overrides) on an
\* existing base, get_parameters(new) has the overriding value at every
\* dotted path of overrides, and every other leaf is the leaf of
\* get_parameters(base) as read when the version was created.
C10_Inheritance ==
    (Created /\ reply.base_found) =>
        InheritanceLaw(get_parameters(versions, reply.version),
                       reply.base_params, reply.changes)

\* C10 amended: the same, for overrides in which no dotted path is a prefix
\* of another one.
C10_InheritanceDisjointPaths ==
    (Created /\ reply.base_found /\ PrefixFree(reply.changes)) =>
        InheritanceLaw(get_parameters(versions, reply.version),
                       reply.base_params, reply.changes)

HasLeaf(tree, p, value) == p \in DOMAIN tree /\ tree[p] = value

C10_Witness ==
    /\ Created
    /\ reply.base_found
    /\ reply.base = "1.1.0"
    /\ reply.version = "1.2.0"
    /\ reply.changes = <<[key |-> KeySwing, value |-> 99]>>
    /\ HasLeaf(reply.base_params, <<"batting", "power_base">>, 90)
    /\ HasLeaf(get_parameters(versions, "1.2.0"),
               <<"batting", "power_base">>, 90)
    /\ HasLeaf(get_parameters(versions, "1.2.0"),
               <<"tuning", "swing", "base">>, 99)
    /\ HasLeaf(get_parameters(versions, "1.2.0"),
               <<"pitching", "control_base">>, 75)

\* C11: versions are immutable once created: no request changes the stored
\* parameter tree of a version that exists, and applying the changes of
\* create_new_version leaves every leaf of the base version's tree, as the
\* request holds it, as it was read.
C11_VersionsImmutable ==
    /\ [][ \A v \in VIds :
               Exists(versions, v) =>
                   /\ Exists(versions', v)
                   /\ versions'[v].parameters = versions[v].parameters ]_vars
    /\ [](\A s \in Sessions :
             (sess[s].pc = "create_insert" /\ sess[s].base_found) =>
                 sess[s].base_row = sess[s].base_params)

\* C12: GET /parameters/{version} for a version that is no row of the store
\* is answered 404, never with a parameter tree.
C12_MissingVersionNotFound ==
    (reply.op = "get_parameters_by_version" /\ ~reply.found) =>
        reply.status = 404

\* C13: an activate call that names a version that is no row of the store is
\* answered 404.
C13_ActivateMissingNotFound ==
    (reply.op = "activate_version" /\ ~Exists(versions, reply.version)) =>
        reply.status = 404

C13_Witness ==
    /\ reply.op = "activate_version"
    /\ reply.status = 404
    /\ reply.version = "1.1.0"
    /\ ~Exists(versions, "1.1.0")
    /\ ActiveIds(versions) = {"1.0.0"}

\* C14: create_new_version whose base version was no row of the store when
\* it was read is answered 400, and the store has no version because of it.
C14_MissingBaseRejected ==
    (reply.op = "create_new_version" /\ ~reply.base_found) =>
        /\ reply.status = 400
        /\ Exists(versions, reply.version) => reply.new_found

\* C15: create_new_version under a version id that is already a row of the
\* store is answered 400 and leaves every row (parameters, description,
\* active flag) as it was.
C15_DuplicateRejected ==
    [][ (reply'.op = "create_new_version" /\ reply'.new_found) =>
            /\ reply'.status = 400
            /\ versions' = versions
      ]_vars

C15_Witness ==
    /\ reply.op = "create_new_version"
    /\ reply.new_found
    /\ reply.base_found
    /\ reply.status = 400
    /\ reply.version = "1.0.0"
    /\ versions["1.0.0"] =
           [parameters |-> DefaultParameters,
            description |-> "Initial default parameters",
            is_active |-> TRUE]

\* C16: the version a successful create_new_version adds is inactive, and
\* the set of active versions is the same before and after the step that
\* adds it.
C16_CreateKeepsActive ==
    [][ (reply'.op = "create_new_version" /\ reply'.status = 200) =>
            /\ ~versions'[reply'.version].is_active
            /\ ActiveIds(versions') = ActiveIds(versions)
      ]_vars

C16_Witness ==
    /\ Created
    /\ reply.version = "1.1.0"
    /\ reply.base = "1.0.0"
    /\ ~versions["1.1.0"].is_active
    /\ ActiveIds(versions) = {"1.0.0"}

\* C17: on a store that no create_new_version has written to, every
\* GET /parameters/current, whatever other first calls it is interleaved
\* with, succeeds, returns the default version "1.0.0", and leaves that
\* version as the one active version.
C17_BootstrapIdempotent ==
    (reply.op = "get_current_parameters" /\ adjustments = {}) =>
        /\ reply.status = 200
        /\ reply.version = "1.0.0"
        /\ ActiveIds(versions) = {"1.0.0"}

(***************************************************************************)
(* Claims about a game played through the endpoints, checked under         *)
(* SpecGame.                                                               *)
(***************************************************************************)
\* C18: in every state of a game reached from start_game by pitch,
\* next-pitch and toggle-pitching requests, balls is in 0..3 and strikes is
\* in 0..2.
C18_CountInRange ==
    /\ db_game.balls \in 0..3
    /\ db_game.strikes \in 0..2

C18_Witness ==
    /\ pitch_record # NoValue
    /\ pitch_record.pitch_number >= 5
    /\ db_game.balls = 3
    /\ db_game.strikes = 2

\* C19: in every state of a game reached from start_game by pitch,
\* next-pitch and toggle-pitching requests, outs is in 0..2.
C19_OutsInRange == db_game.outs \in 0..2

\* C20: the pitch row that execute_pitch stores has, as balls_before,
\* strikes_before and outs_before, the balls, strikes and outs the game had
\* right before the pitch was resolved.
C20_RecordHasCountBefore ==
    [][ pitch_record' # pitch_record =>
            /\ pitch_record'.balls_before = db_game.balls
            /\ pitch_record'.strikes_before = db_game.strikes
            /\ pitch_record'.outs_before = db_game.outs
      ]_vars

(***************************************************************************)
(* Claims about the resolution of a turn, checked under SpecTurn.          *)
(***************************************************************************)
\* C23: for every count and every draw, the guess generate_cpu_guess returns
\* (the guess of a turn in which the player pitches) has its zone in 1..9.
C23_CpuGuessInStrikeRegion ==
    (result # NoValue /\ current_state.is_player_pitching) =>
        batter_guess.zone \in 1..9

C23_Witness ==
    /\ result # NoValue
    /\ current_state.is_player_pitching
    /\ current_state.balls = 3
    /\ current_state.strikes = 1
    /\ batter_guess = [type |-> "changeup", zone |-> 9]

\* C24: every call of calculate_result takes exactly one value from the
\* random source, in the ball branch and in the strike branch alike, and
\* its outcome is the function of the pitch, the guess and that value.
C24_OneDrawPerCall ==
    [][ (result' # result \/ random_stream' # random_stream) =>
            /\ random_stream # <<>>
            /\ random_stream' = Tail(random_stream)
            /\ result' = calculate_result(actual_pitch', batter_guess',
                                          Head(random_stream))
      ]_vars

C24_Witness ==
    /\ result # NoValue
    /\ random_stream = <<>>
    /\ is_strike_zone(actual_pitch)
    /\ random_val = 99
    /\ result.result_type = "strike"

(***************************************************************************)
(* Claims about games played side by side, checked under SpecGames.        *)
(***************************************************************************)
\* the pitch records of game g, in the order in which they were stored
RecordsOf(g) == SelectSeq(pitches, LAMBDA p : p.game_id = g)

\* the response r was sent to the client of game g by operation op
Answered(r, g, op, status) ==
    /\ r # NoReply
    /\ r.game_id = g
    /\ r.op = op
    /\ r.status = status

StepOf(h) ==
    \/ gsess'[h] # gsess[h]
    \/ /\ reply' # reply
       /\ reply' # NoReply
       /\ reply'.game_id = h

\* what a pitch of game g, played on the row and the records of g alone,
\* writes
AloneWrites(g) ==
    { resolve_pitch(g, games[g], RecordsOf(g), pitch, guess, r) :
        pitch \in ({q.player_pitch : q \in PitchRequests} \cup CpuPitches)
                      \ {NoValue},
        guess \in ({q.player_guess : q \in PitchRequests} \cup CpuGuesses)
                      \ {NoValue},
        r \in GamesDraws }

\* C22: turns against different games do not interfere: an operation on one
\* game leaves the row (count, outs, scores, phase) and the pitch records of
\* every other game unchanged, and what a pitch of a game is about to write
\* is what it writes when the game is played alone.
C22_GamesIsolated ==
    /\ [][\A h \in GameIds :
             StepOf(h) =>
                 \A g \in GameIds \ {h} :
                     /\ games'[g] = games[g]
                     /\ RecordsOf(g)' = RecordsOf(g)]_vars
    /\ [](\A g \in GameIds :
             gsess[g].pc = "pitch_commit" =>
                 gsess[g].write \in AloneWrites(g))

\* a pitch of game B is in flight while game A has stored two pitches
C22_Witness ==
    /\ gsess["B"].pc = "pitch_commit"
    /\ Len(RecordsOf("A")) = 2
    /\ games["A"].game_phase = "result"
    /\ gsess["B"].write.record.pitch_number = 1

\* C30: the phase protocol of a game: a new game starts in phase selecting,
\* every successful pitch leaves the game in phase result, and next-pitch
\* sets the phase to selecting and changes nothing else.
C30_PhaseProtocol ==
    [][\A g \in GameIds :
          /\ games[g] = NoValue /\ games'[g] # NoValue =>
                 games'[g].game_phase = "selecting"
          /\ gsess[g].pc = "pitch_commit"
                 /\ Answered(reply', g, "execute_pitch", 200) =>
                 games'[g].game_phase = "result"
          /\ gsess[g].pc = "idle" /\ games[g] # NoValue
                 /\ Answered(reply', g, "next_pitch", 200) =>
                 /\ games' = [games EXCEPT ![g] =
                                 [games[g] EXCEPT
                                     !.game_phase = "selecting"]]
                 /\ pitches' = pitches]_vars

\* next-pitch was answered for a game whose count is not empty
C30_Witness ==
    /\ Answered(reply, "A", "next_pitch", 200)
    /\ games["A"].game_phase = "selecting"
    /\ games["A"].strikes > 0
    /\ Len(RecordsOf("A")) > 0

(***************************************************************************)
(* Claims about zones outside their range, checked under SpecZones.        *)
(***************************************************************************)
Clamp(z, lo, hi) == IF z < lo THEN lo ELSE IF z > hi THEN hi ELSE z

\* C27: a pitch zone outside 1..17 or a guess zone outside 1..9 never
\* silently produces an outcome computed from the out-of-range value: the
\* request either fails as invalid input or is resolved as the zone clamped
\* into its range.
C27_OutOfRangeZoneClamped ==
    result # NoValue
        /\ (actual_pitch.zone \notin 1..17 \/ batter_guess.zone \notin 1..9)
    => \/ result.result_type = "invalid_input"
       \/ result = calculate_result(
                       [actual_pitch EXCEPT
                           !.zone = Clamp(actual_pitch.zone, 1, 17)],
                       [batter_guess EXCEPT
                           !.zone = Clamp(batter_guess.zone, 1, 9)],
                       random_val)

(***************************************************************************)
(* Claims about the parameters behind a resolution, under SpecTuning.      *)
(***************************************************************************)
HitBase(v) ==
    versions[v].parameters[<<"game_mechanics", "hit_probability_base">>]

\* C26: the active parameter version is the source of the hit and swing
\* probabilities of the resolver: of two versions of the store that hold
\* different values for them, activating the one or the other gives
\* different probabilities for some pitch and guess.
C26_ActiveParametersDecide ==
    \A v, w \in VIds :
        Exists(versions, v) /\ Exists(versions, w) /\ HitBase(v) # HitBase(w)
        => \E pitch \in Pitches, guess \in Guesses :
               resolver_chances(get_parameters(versions, v), pitch, guess)
                   # resolver_chances(get_parameters(versions, w), pitch,
                                      guess)

(***************************************************************************)
(* Claims about the log of completed games, checked under SpecLog.         *)
(***************************************************************************)
\* the rows of table game_details logged under version v
RECURSIVE LoggedUnder(_, _)
LoggedUnder(details, v) ==
    IF details = <<>> THEN <<>>
    ELSE (IF Head(details).version = v THEN <<Head(details)>> ELSE <<>>)
             \o LoggedUnder(Tail(details), v)

RECURSIVE SumSeq(_)
SumSeq(numbers) ==
    IF numbers = <<>> THEN 0 ELSE Head(numbers) + SumSeq(Tail(numbers))

SumOver(details, contribution(_)) ==
    SumSeq([i \in 1..Len(details) |-> contribution(details[i])])

\* C25: statistics are aggregated additively over the logged games: for
\* every version and side with logged games there is a statistics row whose
\* counters games_played, hits, wins and losses are the sums of what each
\* logged game contributes, in whatever order the games were logged
\* (at_bats is not recorded per game in game_details).
C25_StatisticsAreSums ==
    \A v \in VIds, side \in {"human", "cpu"} :
        LET logged == LoggedUnder(game_details, v)
            own == IF side = "human" THEN "player" ELSE "cpu"
            other == IF side = "human" THEN "cpu" ELSE "player"
            Hits(d) == IF side = "human" THEN d.hits_player ELSE d.hits_cpu
            Win(d) == IF d.winner = own THEN 1 ELSE 0
            Loss(d) == IF d.winner = other THEN 1 ELSE 0
        IN  logged # <<>> =>
                \E i \in 1..Len(player_statistics) :
                    LET stats == player_statistics[i]
                    IN  /\ stats.version = v
                        /\ stats.player_type = side
                        /\ stats.games_played = Len(logged)
                        /\ stats.hits = SumOver(logged, Hits)
                        /\ stats.wins = SumOver(logged, Win)
                        /\ stats.losses = SumOver(logged, Loss)

C31_PitchOnlyFromSelecting ==
    [][\A g \in GameIds :
          /\ gsess[g].pc = "pitch_commit"
          /\ gsess'[g].pc = "idle"
          /\ games[g].game_phase = "result"
          => /\ games'[g] = games[g]
             /\ RecordsOf(g)' = RecordsOf(g)]_vars

\* C32: toggle-pitching flips the pitching side, sets balls and strikes to 0
\* and the phase to selecting, and leaves outs, inning, both scores and the
\* pitch records as they were; a second toggle gives back the pitching side
\* of before the first.
C32_ToggleFrame ==
    [][\A g \in GameIds :
          /\ gsess[g].pc = "idle"
          /\ games[g] # NoValue
          /\ Answered(reply', g, "toggle_pitching", 200)
          => /\ games'[g].is_player_pitching = ~games[g].is_player_pitching
             /\ games'[g].balls = 0
             /\ games'[g].strikes = 0
             /\ games'[g].game_phase = "selecting"
             /\ games'[g].outs = games[g].outs
             /\ games'[g].inning = games[g].inning
             /\ games'[g].player_score = games[g].player_score
             /\ games'[g].cpu_score = games[g].cpu_score
             /\ pitches' = pitches
             /\ \A h \in GameIds \ {g} : games'[h] = games[h]
             /\ toggled(games'[g]).is_player_pitching
                    = games[g].is_player_pitching]_vars

\* the sides were switched after a strikeout, with one out on the board
C32_Witness ==
    /\ Answered(reply, "A", "toggle_pitching", 200)
    /\ games["A"].outs = 1
    /\ games["A"].balls = 0
    /\ games["A"].strikes = 0
    /\ ~games["A"].is_player_pitching
    /\ Len(RecordsOf("A")) = 3

(***************************************************************************)
(* Further claims about update_game_state, under SpecAdvance.              *)
(***************************************************************************)
\* C33: update_game_state changes only what the outcome calls for: the
\* inning stays, the pitching side is no part of what it returns, outs
\* changes only on a strikeout, a score changes only on a hit or a walk, a
\* ball short of a walk leaves strikes alone, and a strike, swing_miss or
\* foul short of a strikeout leaves balls alone.
C33_UpdateFrame ==
    Applied =>
        LET strikeout == /\ turn.result_type \in {"strike", "swing_miss"}
                         /\ ~turn.is_ball
                         /\ current_state.strikes = 2
            walk == turn.is_ball /\ current_state.balls = 3
            hit == ~turn.is_ball /\ turn.result_type = "hit"
        IN  /\ updated_state.inning = current_state.inning
            /\ DOMAIN updated_state
                   = {"balls", "strikes", "outs", "inning", "score"}
            /\ updated_state.outs # current_state.outs => strikeout
            /\ (\E side \in {"player", "cpu"} :
                    ScoreAfter(side) # ScoreBefore(side)) => hit \/ walk
            /\ turn.is_ball /\ ~walk =>
                   updated_state.strikes = current_state.strikes
            /\ (/\ ~turn.is_ball
                /\ turn.result_type \in {"strike", "swing_miss", "foul"}
                /\ ~strikeout) =>
                   updated_state.balls = current_state.balls

\* a ball on a 2-2 count: three balls, the two strikes stay
C33_Witness ==
    /\ Applied
    /\ turn.is_ball
    /\ current_state.balls = 2
    /\ current_state.strikes = 2
    /\ current_state.outs = 1
    /\ updated_state.balls = 3
    /\ updated_state.strikes = 2
    /\ updated_state.outs = 1

(***************************************************************************)
(* Further claims about the stored pitch row, under SpecGame.              *)
(***************************************************************************)
\* C34: the walk flag is true exactly for the ball outcome: in every pitch
\* row that execute_pitch stores from what calculate_result returned,
\* is_ball holds if and only if result_type is ball.
C34_IsBallIffBall ==
    pitch_record # NoValue =>
        (pitch_record.is_ball <=> pitch_record.result_type = "ball")

\* a pitch outside the zone was stored as a ball, after an earlier swing
\* and miss
C34_Witness ==
    /\ pitch_record # NoValue
    /\ pitch_record.is_ball
    /\ pitch_record.result_type = "ball"
    /\ pitch_record.pitch_zone = 12
    /\ db_game.strikes = 1
    /\ db_game.balls = 1

(***************************************************************************)
(* Further claims about calculate_result, under SpecResolve.               *)
(***************************************************************************)
\* the hit chance calculate_result computes for the pitch and the guess of
\* the state
HitChance ==
    calculate_hit_chance(actual_pitch.zone = batter_guess.zone,
                         batter_guess.type = "any"
                             \/ actual_pitch.type = batter_guess.type,
                         actual_pitch, batter_guess)

ExactMatch ==
    /\ actual_pitch.zone = batter_guess.zone
    /\ batter_guess.type = "any" \/ actual_pitch.type = batter_guess.type

\* C35: for a pitch in the strike zone, of every kind, the hit chance with
\* zone match and type match both true is strictly greater than with either
\* of them false, and the hit chance is never above the cap 0.9 nor below
\* the base 0.1.
C35_ExactMatchWidestHitBand ==
    (Resolved /\ actual_pitch.zone <= 9) =>
        /\ HitChance \in 10..90
        /\ ~ExactMatch =>
               HitChance < calculate_hit_chance(TRUE, TRUE, actual_pitch,
                                                batter_guess)
        /\ \A zone_match, type_match \in BOOLEAN :
               LET chance == calculate_hit_chance(zone_match, type_match,
                                                  actual_pitch, batter_guess)
               IN  /\ chance \in 10..90
                   /\ ~(zone_match /\ type_match) =>
                          chance < calculate_hit_chance(
                                       TRUE, TRUE, actual_pitch, batter_guess)

\* a changeup guessed exactly was hit on a draw just below the cap
C35_Witness ==
    /\ Resolved
    /\ actual_pitch = [type |-> "changeup", zone |-> 5]
    /\ batter_guess = [type |-> "changeup", zone |-> 5]
    /\ random_val = 89
    /\ result.result_type = "hit"

\* C36: for a pitch in the strike zone the draw falls into one of three
\* adjoining bands, in this order: hit below the hit chance, foul in the 0.2
\* above it, strike in what remains; with zone and kind both matched the hit
\* band is 0.9 wide, hit and foul cover every draw, and the turn never
\* resolves to strike.
C36_ThreeBands ==
    (Resolved /\ actual_pitch.zone <= 9) =>
        /\ result.result_type = "hit" <=> random_val < HitChance
        /\ result.result_type = "foul" <=>
               random_val >= HitChance /\ random_val < HitChance + 20
        /\ result.result_type = "strike" <=> random_val >= HitChance + 20
        /\ ExactMatch =>
               /\ HitChance = 90
               /\ result.result_type # "strike"

\* the highest draw on an exactly guessed pitch was a foul
C36_Witness ==
    /\ Resolved
    /\ actual_pitch = [type |-> "slider", zone |-> 3]
    /\ batter_guess = [type |-> "slider", zone |-> 3]
    /\ random_val = 99
    /\ result.result_type = "foul"

(***************************************************************************)
(* Further claims about the log of completed games, under SpecLog.         *)
(***************************************************************************)
\* the statistics rows of version v and side player_type
StatisticsOf(v, player_type) ==
    { i \in 1..Len(player_statistics) :
        /\ player_statistics[i].version = v
        /\ player_statistics[i].player_type = player_type }

C38_GameLoggedOnce ==
    \A i, j \in 1..Len(game_details) :
        game_details[i].game_id = game_details[j].game_id => i = j

====
